---- MODULE Spec2Model ----
(***************************************************************************)
(* The WeatherFlow UDP driver (bin/user/weatherflowudp.py): the listening  *)
(* loop gen_udp_packets, the flattener parseUDPPacket, the projector       *)
(* sendMyLoopPacket and the generator genLoopPackets that chains them.     *)
(*                                                                         *)
(* A Python str is a sequence of one-character strings, so that            *)
(* str.replace, slicing and concatenation are computed and not assumed.    *)
(* A Python dict is a function from its keys to its values.                *)
(* m0..m3 show the locals of one loop iteration: a local the iteration did *)
(* not assign is shown empty (Python keeps the stale value, which no       *)
(* statement reads before the next assignment).                            *)
(***************************************************************************)
EXTENDS Integers, Sequences, FiniteSets, TLC

VARIABLES
    sensor_map,  \* self._sensor_map, set once by __init__
    clock,       \* the wall clock read by time.time(), in ticks
    pc,          \* "listening" while the while-True loop runs, "terminated" once an exception left it
    exc,         \* the exception that left the generators, or "none"
    step,        \* what the last loop iteration did
    m0,          \* the datagram returned by sock.recvfrom
    m1,          \* json.loads(m0) (udp_packet in genLoopPackets)
    m2,          \* parseUDPPacket(m1)
    m3,          \* sendMyLoopPacket(m2, sensor_map)
    out,         \* the records genLoopPackets yielded in the last iteration
    prev         \* history: the message processed before this one, its flattened record and the clock then

vars == <<sensor_map, clock, pc, exc, step, m0, m1, m2, m3, out, prev>>

----------------------------------------------------------------------------
(* Bounds of the model *)

\* the wall clock takes the values 0..MaxClock
MaxClock == 1
\* the short positional arrays have 1..MaxShort elements
MaxShort == 1
\* the long positional arrays have MaxExtra elements more than the field table
MaxExtra == 1

----------------------------------------------------------------------------
(* Python strings and dicts *)

Min(a, b) == IF a <= b THEN a ELSE b

\* s.replace("-", "_")
replace(s) == [i \in 1..Len(s) |-> IF s[i] = "-" THEN "_" ELSE s[i]]

\* dict()
EmptyDict == [k \in {} |-> 0]

\* d[k] = v
Put(d, k, v) == [x \in (DOMAIN d) \cup {k} |-> IF x = k THEN v ELSE d[x]]

\* the string literals the code uses as keys
serial_number == <<"s","e","r","i","a","l","_","n","u","m","b","e","r">>
type == <<"t","y","p","e">>
obs == <<"o","b","s">>
ob == <<"o","b">>
evt == <<"e","v","t">>
timestamp == <<"t","i","m","e","s","t","a","m","p">>
time_epoch == <<"t","i","m","e","_","e","p","o","c","h">>
dateTime == <<"d","a","t","e","T","i","m","e">>
usUnits == <<"u","s","U","n","i","t","s">>
Dot == <<".">>

\* weewx.METRICWX
METRICWX == 17

obs_air == <<"o","b","s","_","a","i","r">>
obs_sky == <<"o","b","s","_","s","k","y">>
obs_st == <<"o","b","s","_","s","t">>
rapid_wind == <<"r","a","p","i","d","_","w","i","n","d">>
evt_precip == <<"e","v","t","_","p","r","e","c","i","p">>
evt_strike == <<"e","v","t","_","s","t","r","i","k","e">>
device_status == <<"d","e","v","i","c","e","_","s","t","a","t","u","s">>
hub_status == <<"h","u","b","_","s","t","a","t","u","s">>

\* Observation record fields
fields ==
    (obs_air :> << <<"t","i","m","e","_","e","p","o","c","h">>, <<"s","t","a","t","i","o","n","_","p","r","e","s","s","u","r","e">>, <<"a","i","r","_","t","e","m","p","e","r","a","t","u","r","e">>, <<"r","e","l","a","t","i","v","e","_","h","u","m","i","d","i","t","y">>,
                   <<"l","i","g","h","t","n","i","n","g","_","s","t","r","i","k","e","_","c","o","u","n","t">>, <<"l","i","g","h","t","n","i","n","g","_","s","t","r","i","k","e","_","a","v","g","_","d","i","s","t","a","n","c","e">>, <<"b","a","t","t","e","r","y">>,
                   <<"r","e","p","o","r","t","_","i","n","t","e","r","v","a","l">> >>)
 @@ (obs_sky :> << <<"t","i","m","e","_","e","p","o","c","h">>, <<"i","l","l","u","m","i","n","a","n","c","e">>, <<"u","v">>, <<"r","a","i","n","_","a","c","c","u","m","u","l","a","t","e","d">>, <<"w","i","n","d","_","l","u","l","l">>,
                   <<"w","i","n","d","_","a","v","g">>, <<"w","i","n","d","_","g","u","s","t">>, <<"w","i","n","d","_","d","i","r","e","c","t","i","o","n">>, <<"b","a","t","t","e","r","y">>, <<"r","e","p","o","r","t","_","i","n","t","e","r","v","a","l">>,
                   <<"s","o","l","a","r","_","r","a","d","i","a","t","i","o","n">>, <<"l","o","c","a","l","_","d","a","y","_","r","a","i","n","_","a","c","c","u","m","u","l","a","t","i","o","n">>, <<"p","r","e","c","i","p","i","t","a","t","i","o","n","_","t","y","p","e">>,
                   <<"w","i","n","d","_","s","a","m","p","l","e","_","i","n","t","e","r","v","a","l">> >>)
 @@ (rapid_wind :> << <<"t","i","m","e","_","e","p","o","c","h">>, <<"w","i","n","d","_","s","p","e","e","d">>, <<"w","i","n","d","_","d","i","r","e","c","t","i","o","n">> >>)
 @@ (evt_precip :> << <<"t","i","m","e","_","e","p","o","c","h">> >>)
 @@ (evt_strike :> << <<"t","i","m","e","_","e","p","o","c","h">>, <<"d","i","s","t","a","n","c","e">>, <<"e","n","e","r","g","y">> >>)
 @@ (obs_st :> << <<"t","i","m","e","_","e","p","o","c","h">>, <<"w","i","n","d","_","l","u","l","l">>, <<"w","i","n","d","_","a","v","g">>, <<"w","i","n","d","_","g","u","s","t">>, <<"w","i","n","d","_","d","i","r","e","c","t","i","o","n">>,
                  <<"w","i","n","d","_","s","a","m","p","l","e","_","i","n","t","e","r","v","a","l">>, <<"s","t","a","t","i","o","n","_","p","r","e","s","s","u","r","e">>, <<"a","i","r","_","t","e","m","p","e","r","a","t","u","r","e">>,
                  <<"r","e","l","a","t","i","v","e","_","h","u","m","i","d","i","t","y">>, <<"i","l","l","u","m","i","n","a","n","c","e">>, <<"u","v">>, <<"s","o","l","a","r","_","r","a","d","i","a","t","i","o","n">>,
                  <<"r","a","i","n","_","a","c","c","u","m","u","l","a","t","e","d">>, <<"p","r","e","c","i","p","i","t","a","t","i","o","n","_","t","y","p","e">>, <<"l","i","g","h","t","n","i","n","g","_","s","t","r","i","k","e","_","a","v","g","_","d","i","s","t","a","n","c","e">>,
                  <<"l","i","g","h","t","n","i","n","g","_","s","t","r","i","k","e","_","c","o","u","n","t">>, <<"b","a","t","t","e","r","y">>, <<"r","e","p","o","r","t","_","i","n","t","e","r","v","a","l">> >>)

----------------------------------------------------------------------------
(* sendMyLoopPacket *)

\* the aliases whose normalised key is in pkt
Matching(pkt, smap) == {w \in DOMAIN smap : replace(smap[w]) \in DOMAIN pkt}

\* faulty variant: the aliases are looked up as authored, without replace("-", "_")
sendMyLoopPacket_AsAuthored(pkt, smap) ==
    LET seed == IF time_epoch \in DOMAIN pkt
                THEN Put(Put(EmptyDict, dateTime, pkt[time_epoch]), usUnits, METRICWX)
                ELSE EmptyDict
        hit == {w \in DOMAIN smap : smap[w] \in DOMAIN pkt}
    IN  [w \in (DOMAIN seed) \cup hit |-> IF w \in hit THEN pkt[smap[w]] ELSE seed[w]]

\* faulty variant: the seed lacks the unit-system tag
sendMyLoopPacket_NoUnits(pkt, smap) ==
    LET seed == IF time_epoch \in DOMAIN pkt
                THEN Put(EmptyDict, dateTime, pkt[time_epoch])
                ELSE EmptyDict
    IN  [w \in (DOMAIN seed) \cup Matching(pkt, smap) |->
            IF w \in Matching(pkt, smap) THEN pkt[replace(smap[w])] ELSE seed[w]]

sendMyLoopPacket(pkt, smap) ==
    LET seed == IF time_epoch \in DOMAIN pkt
                THEN Put(Put(EmptyDict, dateTime, pkt[time_epoch]), usUnits, METRICWX)
                ELSE EmptyDict
    IN  [w \in (DOMAIN seed) \cup Matching(pkt, smap) |->
            IF w \in Matching(pkt, smap) THEN pkt[replace(smap[w])] ELSE seed[w]]

----------------------------------------------------------------------------
(* parseUDPPacket *)

\* faulty variant: the label leaves the hardware id out
Label_NoSerial(pkt) == pkt[type]

\* serial_number + "." + pkt['type']
Label(pkt) == replace(pkt[serial_number]) \o Dot \o pkt[type]

\* for key in pkt: packet[key + "." + pkt_label] = pkt[key]
RawCopy(pkt) ==
    LET lab == Label(pkt)
    IN  [ck \in {key \o Dot \o lab : key \in DOMAIN pkt} |->
            pkt[CHOOSE key \in DOMAIN pkt : key \o Dot \o lab = ck]]

\* faulty variant: the zip loses its last pair
ZipInto_DropLast(packet, names, values, lab) ==
    LET n == Min(Len(names), Len(values)) - 1
    IN  [ck \in (DOMAIN packet) \cup {names[i] \o Dot \o lab : i \in 1..n} |->
            IF \E i \in 1..n : names[i] \o Dot \o lab = ck
            THEN values[CHOOSE i \in 1..n : names[i] \o Dot \o lab = ck]
            ELSE packet[ck]]

\* for key, value in zip(names, values): packet[key + "." + pkt_label] = value
ZipInto(packet, names, values, lab) ==
    LET n == Min(Len(names), Len(values))
        written == {names[i] \o Dot \o lab : i \in 1..n}
        last(ck) == CHOOSE i \in 1..n :
                       /\ names[i] \o Dot \o lab = ck
                       /\ \A j \in 1..n : names[j] \o Dot \o lab = ck => j <= i
    IN  [ck \in (DOMAIN packet) \cup written |->
            IF ck \in written THEN values[last(ck)] ELSE packet[ck]]

\* pkt['type'][0:2] == 'X_'
IsExtension(t) == SubSeq(t, 1, Min(2, Len(t))) = <<"X","_">>

\* the exception a subscript of parseUDPPacket raises on pkt, or "none"
ParseError(pkt) ==
    IF ~(serial_number \in DOMAIN pkt /\ type \in DOMAIN pkt)
    THEN "none"
    ELSE LET t == pkt[type] IN
         IF t \in {obs_air, obs_sky, obs_st}
         THEN IF obs \notin DOMAIN pkt THEN "KeyError"
              ELSE IF Len(pkt[obs]) = 0 THEN "IndexError"
              ELSE IF Len(pkt[obs][1]) = 0 THEN "IndexError"
              ELSE "none"
         ELSE IF t = rapid_wind
         THEN IF ob \notin DOMAIN pkt THEN "KeyError"
              ELSE IF Len(pkt[ob]) = 0 THEN "IndexError"
              ELSE "none"
         ELSE IF t \in {evt_strike, evt_precip}
         THEN IF evt \notin DOMAIN pkt THEN "KeyError"
              ELSE IF Len(pkt[evt]) = 0 THEN "IndexError"
              ELSE "none"
         ELSE IF t \in {device_status, hub_status}
         THEN IF timestamp \notin DOMAIN pkt THEN "KeyError" ELSE "none"
         ELSE "none"

\* if 'serial_number' in pkt: if 'type' in pkt:
HasHeader(pkt) == serial_number \in DOMAIN pkt /\ type \in DOMAIN pkt

\* faulty variant: the status packets are stamped with the wall clock
Flatten_StatusClock(pkt, now) ==
    LET t == pkt[type]
        lab == Label(pkt)
        packet == RawCopy(pkt)
    IN  IF t \in {obs_air, obs_sky, obs_st}
        THEN ZipInto(Put(packet, time_epoch, pkt[obs][1][1]), fields[t], pkt[obs][1], lab)
        ELSE IF t = rapid_wind
        THEN ZipInto(Put(packet, time_epoch, pkt[ob][1]), fields[rapid_wind], pkt[ob], lab)
        ELSE IF t \in {evt_strike, evt_precip}
        THEN ZipInto(Put(packet, time_epoch, pkt[evt][1]), fields[t], pkt[evt], lab)
        ELSE IF t \in {device_status, hub_status} \/ IsExtension(t)
        THEN Put(packet, time_epoch, now)
        ELSE packet

\* faulty variant: an extension packet gets no time_epoch
Flatten_NoExtensionStamp(pkt, now) ==
    LET t == pkt[type]
        lab == Label(pkt)
        packet == RawCopy(pkt)
    IN  IF t \in {obs_air, obs_sky, obs_st}
        THEN ZipInto(Put(packet, time_epoch, pkt[obs][1][1]), fields[t], pkt[obs][1], lab)
        ELSE IF t = rapid_wind
        THEN ZipInto(Put(packet, time_epoch, pkt[ob][1]), fields[rapid_wind], pkt[ob], lab)
        ELSE IF t \in {evt_strike, evt_precip}
        THEN ZipInto(Put(packet, time_epoch, pkt[evt][1]), fields[t], pkt[evt], lab)
        ELSE IF t \in {device_status, hub_status}
        THEN Put(packet, time_epoch, pkt[timestamp])
        ELSE packet

\* the body of parseUDPPacket under the two ifs; now is int(time.time())
Flatten(pkt, now) ==
    LET t == pkt[type]
        lab == Label(pkt)
        packet == RawCopy(pkt)
    IN  IF t \in {obs_air, obs_sky, obs_st}
        THEN ZipInto(Put(packet, time_epoch, pkt[obs][1][1]), fields[t], pkt[obs][1], lab)
        ELSE IF t = rapid_wind
        THEN ZipInto(Put(packet, time_epoch, pkt[ob][1]), fields[rapid_wind], pkt[ob], lab)
        ELSE IF t \in {evt_strike, evt_precip}
        THEN ZipInto(Put(packet, time_epoch, pkt[evt][1]), fields[t], pkt[evt], lab)
        ELSE IF t \in {device_status, hub_status}
        THEN Put(packet, time_epoch, pkt[timestamp])
        ELSE IF IsExtension(t)
        THEN Put(packet, time_epoch, now)
        ELSE packet

\* faulty variant: a message without serial_number or type is stamped before it is rejected
parseUDPPacket_Stamped(pkt, now) ==
    IF HasHeader(pkt) THEN Flatten(pkt, now) ELSE Put(EmptyDict, time_epoch, now)

\* the dict parseUDPPacket returns when no subscript raises
parseUDPPacket(pkt, now) ==
    IF HasHeader(pkt) THEN Flatten(pkt, now) ELSE EmptyDict

----------------------------------------------------------------------------
(* The datagrams the socket delivers and the sensor maps of the configuration *)

\* a positional array of n scalars, the timestamp first
Positional(n) == [i \in 1..n |-> IF i = 1 THEN 1600000000 ELSE i]

Serials == { <<"A","-","1">>, <<"A","_","1">>, <<"B","-","2">> }
X_custom == <<"X","_","c","u","s","t","o","m">>
X_hyphen == <<"X","_","a","-","b">>
unknown_type == <<"z","z">>
Types == (DOMAIN fields) \cup {device_status, hub_status, X_custom, X_hyphen, unknown_type}

ArrayLens(t) == (1..MaxShort) \cup {Len(fields[t]), Len(fields[t]) + MaxExtra}

\* the type-specific part of a well-formed message of type t
WellFormed(t) ==
    IF t \in {obs_air, obs_sky, obs_st}
    THEN {obs :> << Positional(n) >> : n \in ArrayLens(t)}
    ELSE IF t = rapid_wind
    THEN {ob :> Positional(n) : n \in ArrayLens(t)}
    ELSE IF t \in {evt_strike, evt_precip}
    THEN {evt :> Positional(n) : n \in ArrayLens(t)}
    ELSE IF t \in {device_status, hub_status}
    THEN {timestamp :> 1600000000}
    ELSE {EmptyDict}

\* the type-specific part of a message of type t whose payload is missing or empty
Defective(t) ==
    IF t \in {obs_air, obs_sky, obs_st}
    THEN {EmptyDict, obs :> <<>>, obs :> << <<>> >>}
    ELSE IF t = rapid_wind
    THEN {EmptyDict, ob :> <<>>}
    ELSE IF t \in {evt_strike, evt_precip}
    THEN {EmptyDict, evt :> <<>>}
    ELSE IF t \in {device_status, hub_status}
    THEN {EmptyDict}
    ELSE {}

\* the decoded messages: every type and payload from one sensor, a few types from
\* two more sensors, and messages without serial_number or without type
Messages ==
    UNION {{(serial_number :> <<"A","-","1">>) @@ (type :> t) @@ p : p \in WellFormed(t) \cup Defective(t)} : t \in Types}
    \cup UNION {{(serial_number :> s) @@ (type :> t) @@ p : s \in Serials, p \in WellFormed(t)} :
                   t \in {rapid_wind, hub_status, unknown_type, X_hyphen}}
    \cup {h @@ p : h \in {EmptyDict, serial_number :> <<"A","-","1">>, type :> obs_air},
                   p \in {EmptyDict, obs :> << Positional(2) >>}}
    \cup {(serial_number :> <<"C">>) @@ (type :> <<"1",".","z","z">>),
          (serial_number :> <<"C",".","1">>) @@ (type :> unknown_type)}

\* a datagram: whether its bytes decode as text, whether the text is JSON, and the document
Datagram(enc, syn, doc) == [encoding |-> enc, syntax |-> syn, doc |-> doc]

Datagrams ==
    {Datagram("ok", "ok", m) : m \in Messages}
    \cup {Datagram("invalid", "ok", EmptyDict), Datagram("ok", "invalid", EmptyDict)}

\* the sensor map with one output name per key of flat
FullAlias(flat) == [w \in {<<"w",".">> \o k : k \in DOMAIN flat} |-> SubSeq(w, 3, Len(w))]

Probe(s, t, p) == (serial_number :> s) @@ (type :> t) @@ p

SensorMaps ==
    { EmptyDict,
      <<"o","u","t","T","e","m","p">> :> <<"a","i","r","_","t","e","m","p","e","r","a","t","u","r","e",".","A","-","1",".","o","b","s","_","a","i","r">>,
      (<<"w","i","n","d","S","p","e","e","d">> :> <<"w","i","n","d","_","s","p","e","e","d",".","B","-","2",".","r","a","p","i","d","_","w","i","n","d">>) @@ (<<"w","i","n","d","D","i","r">> :> <<"w","i","n","d","_","d","i","r","e","c","t","i","o","n",".","B","-","2",".","r","a","p","i","d","_","w","i","n","d">>),
      (<<"r","a","w","T","y","p","e">> :> <<"t","y","p","e",".","A","-","1",".","z","z">>) @@ (<<"r","a","w","S","e","r","i","a","l">> :> <<"s","e","r","i","a","l","_","n","u","m","b","e","r",".","A","-","1",".","X","_","c","u","s","t","o","m">>),
      usUnits :> time_epoch,
      FullAlias(parseUDPPacket(Probe(<<"A","-","1">>, obs_air, obs :> << Positional(1) >>), 0)),
      FullAlias(parseUDPPacket(Probe(<<"A","-","1">>, unknown_type, EmptyDict), 0)),
      FullAlias(parseUDPPacket(Probe(<<"B","-","2">>, X_hyphen, EmptyDict), 0)),
      (usUnits :> <<"t","i","m","e","s","t","a","m","p",".","B","_","2",".","h","u","b","_","s","t","a","t","u","s">>) @@ (<<"e">> :> time_epoch)
          @@ (<<"s">> :> <<"s","e","r","i","a","l","_","n","u","m","b","e","r",".","B","_","2",".","h","u","b","_","s","t","a","t","u","s">>) @@ (<<"t">> :> <<"t","y","p","e",".","B","_","2",".","h","u","b","_","s","t","a","t","u","s">>) }

----------------------------------------------------------------------------
(* gen_udp_packets and genLoopPackets *)

\* json.loads(m0): the exception it raises, or "none"
json_loads_error(d) ==
    IF d.encoding = "invalid" THEN "UnicodeDecodeError"
    ELSE IF d.syntax = "invalid" THEN "JSONDecodeError"
    ELSE "none"

\* json.loads(m0) when it raises nothing
json_loads(d) == d.doc

\* except UnicodeDecodeError:
Caught(e) == e = "UnicodeDecodeError"

\* if len(m3) > 2: yield m3
Forwarded(rec) == IF Cardinality(DOMAIN rec) > 2 THEN <<rec>> ELSE <<>>

NoPrev == [valid |-> FALSE, msg |-> EmptyDict, flat |-> EmptyDict, at |-> 0]

Init ==
    /\ sensor_map \in SensorMaps
    /\ clock = 0
    /\ pc = "listening"
    /\ exc = "none"
    /\ step = "start"
    /\ m0 = Datagram("ok", "ok", EmptyDict)
    /\ m1 = EmptyDict
    /\ m2 = EmptyDict
    /\ m3 = EmptyDict
    /\ out = <<>>
    /\ prev = NoPrev

\* one iteration of the while loop of gen_udp_packets on datagram d, and, when it
\* yields, the body of the for loop of genLoopPackets; now is the wall clock
Iterate(d, now) ==
    /\ pc = "listening"
    /\ m0' = d
    /\ clock' = now
    /\ UNCHANGED sensor_map
    /\ LET e0 == json_loads_error(d) IN
       IF e0 # "none"
       THEN /\ m1' = EmptyDict /\ m2' = EmptyDict /\ m3' = EmptyDict
            /\ out' = <<>>
            /\ IF Caught(e0)
               THEN step' = "undecodable" /\ UNCHANGED <<pc, exc>>
               ELSE step' = "raised" /\ pc' = "terminated" /\ exc' = e0
       ELSE /\ m1' = json_loads(d)
            /\ LET e1 == ParseError(json_loads(d)) IN
               IF e1 # "none"
               THEN /\ m2' = EmptyDict /\ m3' = EmptyDict
                    /\ out' = <<>>
                    /\ step' = "raised" /\ pc' = "terminated" /\ exc' = e1
               ELSE /\ m2' = parseUDPPacket(json_loads(d), now)
                    /\ m3' = sendMyLoopPacket(m2', sensor_map)
                    /\ out' = Forwarded(m3')
                    /\ step' = "processed"
                    /\ UNCHANGED <<pc, exc>>

\* sock.recvfrom returns a datagram
Receive ==
    \E d \in Datagrams, now \in clock..MaxClock :
        /\ Iterate(d, now)
        /\ prev' = NoPrev

\* sock.recvfrom raises timeout
Timeout ==
    /\ pc = "listening"
    /\ step' = "timeout"
    /\ m0' = Datagram("ok", "ok", EmptyDict)
    /\ m1' = EmptyDict /\ m2' = EmptyDict /\ m3' = EmptyDict
    /\ out' = <<>>
    /\ prev' = NoPrev
    /\ UNCHANGED <<sensor_map, clock, pc, exc>>

Next == Receive \/ Timeout

Spec == Init /\ [][Next]_vars

----------------------------------------------------------------------------
(* Two datagrams in a row through one driver instance, the first one remembered *)

InitPair == Init /\ sensor_map = EmptyDict

\* the first datagram
ReceiveFirst == step = "start" /\ Receive

\* the datagram after a processed one
ReceiveSecond ==
    \E d \in Datagrams, now \in clock..MaxClock :
        /\ step = "processed"
        /\ ~prev.valid
        /\ Iterate(d, now)
        /\ prev' = [valid |-> TRUE, msg |-> m1, flat |-> m2, at |-> clock]

NextPair == ReceiveFirst \/ ReceiveSecond

SpecPair == InitPair /\ [][NextPair]_vars

----------------------------------------------------------------------------
(* The claims *)

\* m1 is the message json.loads returned in the last iteration
Decoded == step \in {"processed", "raised"} /\ json_loads_error(m0) = "none"

\* the last iteration ran parseUDPPacket and sendMyLoopPacket to their return
Processed == step = "processed"

NoDot(s) == \A i \in 1..Len(s) : s[i] # "."
NoHyphen(s) == \A i \in 1..Len(s) : s[i] # "-"
SeedNames == {dateTime, usUnits}
AliasesAvoidSeeds == (DOMAIN sensor_map) \cap SeedNames = {}

\* C1: a datagram whose bytes are not valid text or not valid JSON is logged and
\* dropped and never terminates the packet stream: the loop keeps listening
C1_DecodeFailureKeepsListening ==
    json_loads_error(m0) # "none" => (pc = "listening" /\ exc = "none")

\* C2: for every decoded message that has serial_number and type, parseUDPPacket
\* returns a record without raising, whatever its positional payload, and the
\* loop goes on
C2_HeaderedPacketNeverRaises ==
    (Decoded /\ HasHeader(m1)) => (step = "processed" /\ pc = "listening" /\ exc = "none")

\* C3: for every decoded message that lacks serial_number or type, parseUDPPacket
\* returns the empty record (no key, not even time_epoch) and no exception
\* leaves the pipeline
C3_MalformedYieldsEmptyRecord ==
    (Decoded /\ ~HasHeader(m1)) =>
        (step = "processed" /\ m2 = EmptyDict /\ pc = "listening" /\ exc = "none")

C3_Witness ==
    /\ Processed
    /\ ~HasHeader(m1)
    /\ obs \in DOMAIN m1
    /\ m2 = EmptyDict

CompositeKeys(flat) == (DOMAIN flat) \ {time_epoch}

\* two packets in a row were both flattened
BothFlattened == prev.valid /\ Processed /\ HasHeader(prev.msg) /\ HasHeader(m1)

\* C4 as stated: two packets whose serial_number values differ share no
\* composite key
C4_DifferentSerialsNeverCollide ==
    (BothFlattened /\ prev.msg[serial_number] # m1[serial_number]) =>
        CompositeKeys(prev.flat) \cap CompositeKeys(m2) = {}

\* two packets whose serial numbers still differ once hyphens are underscores,
\* with no "." in serial_number or type
DistinctHardware ==
    /\ BothFlattened
    /\ replace(prev.msg[serial_number]) # replace(m1[serial_number])
    /\ NoDot(prev.msg[serial_number]) /\ NoDot(m1[serial_number])
    /\ NoDot(prev.msg[type]) /\ NoDot(m1[type])

\* C4 amended: two packets whose serial_number values differ after hyphens are
\* replaced by underscores, and whose serial_number and type hold no ".", share
\* no composite key
C4_NormalisedSerialsNeverCollide ==
    DistinctHardware => CompositeKeys(prev.flat) \cap CompositeKeys(m2) = {}

C4_Witness ==
    /\ DistinctHardware
    /\ prev.msg[type] = rapid_wind /\ m1[type] = rapid_wind
    /\ Cardinality(CompositeKeys(prev.flat)) = 6
    /\ Cardinality(CompositeKeys(m2)) = 6
    /\ CompositeKeys(prev.flat) \cap CompositeKeys(m2) = {}

\* the values of smap are exactly the keys of flat, one output name per key
IsFullAlias(smap, flat) ==
    /\ {smap[w] : w \in DOMAIN smap} = DOMAIN flat
    /\ Cardinality(DOMAIN smap) = Cardinality(DOMAIN flat)

\* C5 as stated: projecting a flattened record through an alias table that holds
\* every one of its keys gives as many entries as the alias table plus two
C5_RoundTripCardinality ==
    (Processed /\ IsFullAlias(sensor_map, m2)) =>
        Cardinality(DOMAIN m3) = Cardinality(DOMAIN sensor_map) + 2

FullAliasOfStampedRecord ==
    /\ Processed
    /\ IsFullAlias(sensor_map, m2)
    /\ time_epoch \in DOMAIN m2
    /\ \A k \in DOMAIN m2 : NoHyphen(k)
    /\ AliasesAvoidSeeds

\* C5 amended: for a flattened record that holds time_epoch and has no hyphen in
\* its keys, and an alias table that holds every one of its keys under output
\* names other than dateTime and usUnits, the output record has as many entries
\* as the alias table plus two
C5_RoundTripCardinalityStamped ==
    FullAliasOfStampedRecord =>
        Cardinality(DOMAIN m3) = Cardinality(DOMAIN sensor_map) + 2

C5_Witness ==
    /\ FullAliasOfStampedRecord
    /\ m1[type] = obs_air
    /\ Cardinality(DOMAIN sensor_map) = 5
    /\ Cardinality(DOMAIN m3) = 7

\* the same message was processed twice in a row
Redelivered == prev.valid /\ Processed /\ prev.msg = m1

\* C6 as stated: flattening the same datagram twice gives identical records,
\* for every packet type
C6_FlattenTwiceIdentical ==
    Redelivered => prev.flat = m2

\* C6 amended: flattening the same datagram twice gives identical records for
\* every packet type but the X_ extensions; for an X_ packet the two records
\* agree on every key but time_epoch, which holds the wall clock of each run
C6_FlattenTwiceIdenticalButExtensionStamp ==
    Redelivered =>
        IF HasHeader(m1) /\ IsExtension(m1[type])
        THEN /\ DOMAIN prev.flat = DOMAIN m2
             /\ \A k \in CompositeKeys(m2) : prev.flat[k] = m2[k]
             /\ prev.flat[time_epoch] = prev.at
             /\ m2[time_epoch] = clock
        ELSE prev.flat = m2

C6_Witness ==
    /\ Redelivered
    /\ prev.at < clock
    /\ HasHeader(m1)
    /\ m1[type] = hub_status
    /\ time_epoch \in DOMAIN m2
    /\ prev.flat = m2

IsRollUp(pkt) == HasHeader(pkt) /\ pkt[type] \in {obs_air, obs_sky, obs_st}

\* the composite key of the i-th field of the field table of pkt
FieldKey(pkt, i) ==
    fields[pkt[type]][i] \o Dot \o replace(pkt[serial_number]) \o Dot \o pkt[type]

\* C7: for a roll-up packet with a non-empty obs[0], parseUDPPacket writes
\* min(len(field table), len(obs[0])) fields from the positional array, and the
\* field fieldTable[i] + "." + label holds obs[0][i]
C7_RollUpWritesMinFields ==
    (Processed /\ IsRollUp(m1)) =>
        LET tab == fields[m1[type]]
            arr == m1[obs][1]
            n == Min(Len(tab), Len(arr))
        IN  /\ \A i \in 1..n : FieldKey(m1, i) \in DOMAIN m2 /\ m2[FieldKey(m1, i)] = arr[i]
            /\ Cardinality({i \in 1..Len(tab) : FieldKey(m1, i) \in DOMAIN m2}) = n
            /\ Cardinality(DOMAIN m2) = Cardinality(DOMAIN m1) + 1 + n

C7_Witness ==
    /\ Processed
    /\ IsRollUp(m1)
    /\ Len(m1[obs][1]) > Len(fields[m1[type]])
    /\ Cardinality({i \in 1..Len(fields[m1[type]]) : FieldKey(m1, i) \in DOMAIN m2})
         = Len(fields[m1[type]])

\* an X_ packet without positional array
IsBareExtension(pkt) ==
    HasHeader(pkt) /\ IsExtension(pkt[type]) /\ (DOMAIN pkt) \cap {obs, ob, evt} = {}

\* C8 as stated: for an X_ packet without positional array and any alias table,
\* the output record holds only dateTime, set to the current wall-clock time
C8_ExtensionOutputOnlyDateTime ==
    (Processed /\ IsBareExtension(m1)) =>
        (DOMAIN m3 = {dateTime} /\ m3[dateTime] = clock)

\* C8 amended: for an X_ packet without positional array and an alias table that
\* names no output dateTime or usUnits, the output record holds dateTime, set to
\* the current wall-clock time, and the usUnits tag, and besides these only
\* aliases of time_epoch or of a raw top-level key of the packet
C8_ExtensionOutputSeedsAndRawAliases ==
    (Processed /\ IsBareExtension(m1) /\ AliasesAvoidSeeds) =>
        /\ SeedNames \subseteq DOMAIN m3
        /\ m3[dateTime] = clock
        /\ m3[usUnits] = METRICWX
        /\ \A w \in (DOMAIN m3) \ SeedNames :
              /\ w \in DOMAIN sensor_map
              /\ \/ replace(sensor_map[w]) = time_epoch /\ m3[w] = clock
                 \/ \E k \in DOMAIN m1 :
                       /\ replace(sensor_map[w]) =
                            k \o Dot \o replace(m1[serial_number]) \o Dot \o m1[type]
                       /\ m3[w] = m1[k]

C8_Witness ==
    /\ Processed
    /\ IsBareExtension(m1)
    /\ AliasesAvoidSeeds
    /\ clock = 1
    /\ DOMAIN m3 = {dateTime, usUnits, <<"r","a","w","S","e","r","i","a","l">>}
    /\ m3[dateTime] = 1

\* the output record of sendMyLoopPacket as the claim describes it
SeedAsClaimed ==
    IF time_epoch \in DOMAIN m2
    THEN /\ SeedNames \subseteq DOMAIN m3
         /\ m3[dateTime] = m2[time_epoch]
         /\ m3[usUnits] = METRICWX
    ELSE (DOMAIN m3) \cap SeedNames = {}

AliasesAsClaimed ==
    /\ \A w \in DOMAIN sensor_map :
          IF replace(sensor_map[w]) \in DOMAIN m2
          THEN w \in DOMAIN m3 /\ m3[w] = m2[replace(sensor_map[w])]
          ELSE w \in SeedNames \/ w \notin DOMAIN m3
    /\ DOMAIN m3 \subseteq SeedNames \cup DOMAIN sensor_map

\* C9 as stated: for every flattened record and every alias table the output
\* record holds dateTime = time_epoch and the METRICWX tag exactly when the
\* record holds time_epoch, and each alias exactly when its normalised key is in
\* the record
C9_ProjectionAsSpecified ==
    Processed => (SeedAsClaimed /\ AliasesAsClaimed)

\* C9 amended: the same, for every alias table that names no output dateTime or
\* usUnits
C9_ProjectionAsSpecifiedAvoidingSeeds ==
    (Processed /\ AliasesAvoidSeeds) => (SeedAsClaimed /\ AliasesAsClaimed)

C9_Witness ==
    /\ Processed
    /\ AliasesAvoidSeeds
    /\ m1 = (serial_number :> <<"A","-","1">>) @@ (type :> obs_air) @@ (obs :> << Positional(8) >>)
    /\ sensor_map = (<<"o","u","t","T","e","m","p">> :> <<"a","i","r","_","t","e","m","p","e","r","a","t","u","r","e",".","A","-","1",".","o","b","s","_","a","i","r">>)
    /\ m3 = (dateTime :> 1600000000) @@ (<<"o","u","t","T","e","m","p">> :> 3) @@ (usUnits :> METRICWX)

\* C10: genLoopPackets forwards the output record of a datagram exactly when it
\* holds a field besides dateTime and usUnits, one record per datagram at most
C10_ForwardsExactlyInformativeRecords ==
    Processed =>
        /\ out \in {<<>>, <<m3>>}
        /\ (out = <<m3>>) <=> ((DOMAIN m3) \ SeedNames # {})


====
